---- MODULE Spec2Model ----
\* A model of src/frontend_int.py: the Streamlit pet-health assistant.
\* One script run of main() is one user interaction; a run that carries a
\* question is a turn, cut into steps at its remote calls (the rewrite
\* completion, the search, the final completion), each of which may succeed
\* or raise.
\*
\* Text is a sequence of tokens. The characters the code treats specially,
\* the apostrophe and the dollar sign, are tokens of their own, so that
\* str.replace is modelled by what it does to them.
EXTENDS Integers, Sequences, FiniteSets, TLC

\* ------------------------------------------------------------------ bounds
\* Longest Conversation Log of the turn pipeline's specification.
MaxLog == 4
\* Longest log handed to get_chat_history in SpecHist.
MaxHistLen == 12

\* --------------------------------------------------------- program constants
\* st.number_input("Chat History Length", min_value=1, max_value=10, value=5)
MinChatMessages == 1
MaxChatMessages == 10
DefaultChatMessages == 5
\* st.number_input("Max Search Results", min_value=1, max_value=10, value=5)
MinRetrievedChunks == 1
MaxRetrievedChunks == 10
DefaultRetrievedChunks == 5

MODELS ==
    << "mistral-large2", "llama3.1-70b", "llama3.1-8b", "llama3-70b",
       "llama3-8b", "mixtral-8x7b", "reka-flash", "reka-core" >>

\* ------------------------------------------------------------------- text
Max(a, b) == IF a >= b THEN a ELSE b
Min(a, b) == IF a <= b THEN a ELSE b

\* str.replace(old, new) where old is one special character.
RECURSIVE Replace(_, _, _)
Replace(t, old, new) ==
    IF t = << >> THEN << >>
    ELSE (IF Head(t) = old THEN new ELSE << Head(t) >>) \o Replace(Tail(t), old, new)

Contains(t, tok) == \E i \in 1..Len(t) : t[i] = tok

\* text.replace("$", "\$"): a backslash is put before every dollar sign.
EscapeDollar(t) == Replace(t, "$", << "\\", "$" >>)

\* A cleaning that drops the dollar signs with the apostrophes.
clean_question_strips_dollars(q) == Replace(Replace(q, "'", << >>), "$", << >>)

\* question.replace("'", ""): every apostrophe is dropped.
clean_question(q) == Replace(q, "'", << >>)

\* str.lower() on the column names the services report.
Lower(s) == IF s = "CHUNK" THEN "chunk" ELSE s

\* ------------------------------------------------------ inputs of the model
\* What the user types in st.chat_input: one plain text, one with an
\* apostrophe and a dollar sign.
TypedQuestions ==
    { << "Is this normal?" >>,
      << "What", "'", "s a ", "$", "5 vaccine?" >> }

\* display_sample_questions: the sample_questions list.
sample_questions ==
    << << "What are the signs of dehydration in dogs?" >>,
       << "How often should I feed my kitten?" >>,
       << "What vaccinations does my puppy need?" >>,
       << "Is chocolate dangerous for pets?" >>,
       << "How can I tell if my cat is stressed?" >>,
       << "What are symptoms of pet allergies?" >>,
       << "When should I be concerned about my pet", "'", "s behavior?" >>,
       << "How do I introduce a new pet to my household?" >> >>

\* The sample buttons the model clicks (sample_6, the one with an apostrophe).
SampleClicks == { 7 }

\* Texts the remote Complete call may return.
CompletionTexts ==
    { << "Please see a vet." >>, << "About ", "$", "20." >> }

\* Result sequences the remote search may return.
SearchResults ==
    { << >>,
      << [chunk |-> "Dehydration signs", title |-> "Canine care",
          file_url |-> "s3://docs/canine.pdf"] >> }

\* -------------------------------------------------------------- constants
PETAPP_SERVICE == << "PETAPP", "DATA", "CC_SEARCH_SERVICE_CS" >>
BARE_SERVICE == << "CC_SEARCH_SERVICE_CS" >>
SEARCH_ERROR_CONTEXT == << "No context retrieved due to search error." >>
PET_MARKER == "Pet Information: "

NoQuestion == << >>
NoPrompt == [kind |-> "none"]
NoDownload == [kind |-> "none"]
EmptyStr == [kind |-> "str", items |-> << >>]
List(items) == [kind |-> "list", items |-> items]

\* Python values of the pet profile: None, a str, a number.
None == [k |-> "none"]
Str(s) == [k |-> "str", v |-> s]
Num(n) == [k |-> "num", n |-> n]
\* bool(v) for these values.
Truthy(v) ==
    CASE v.k = "none" -> FALSE
      [] v.k = "str" -> v.v # ""
      [] v.k = "num" -> v.n # 0

PetKeys == { "name", "type", "breed", "age", "weight", "spayed_neutered",
             "medical_conditions" }

VARIABLES
    messages,                        \* st.session_state.messages
    service_metadata,                \* st.session_state.service_metadata
    selected_cortex_search_service,  \* the service selectbox
    pet_info,                        \* st.session_state.pet_info
    debug,                           \* the Debug Mode toggle
    use_chat_history,                \* the Use Chat History toggle
    num_chat_messages,               \* the Chat History Length input
    model_name,                      \* the Language Model selectbox
    num_retrieved_chunks,            \* the Max Search Results input
    sample_question,                 \* st.session_state.sample_question, << >> when absent
    download,                        \* what the Download Chat History button holds
    pc,                              \* where the script run stands
    question,                        \* main's question
    chat_history,                    \* create_prompt's chat_history
    question_summary,                \* create_prompt's question_summary
    query,                           \* the query given to query_cortex_search_service
    prompt_context,                  \* create_prompt's prompt_context
    results,                         \* create_prompt's results
    prompt,                          \* create_prompt's prompt
    generated_response,              \* main's generated_response
    pet_context,                     \* get_pet_context's return value
    rewrite_prompt,                  \* make_chat_history_summary's prompt
    calls,                           \* the remote calls of this run, in order
    shown,                           \* what this run has displayed
    outcome                          \* how the last run ended

sessionVars == << service_metadata, selected_cortex_search_service, model_name,
                  num_retrieved_chunks >>
configVars == << debug, use_chat_history, num_chat_messages >>
localVars == << question, chat_history, question_summary, query, prompt_context, results, prompt,
                generated_response, pet_context, rewrite_prompt >>
vars == << messages, service_metadata, selected_cortex_search_service, pet_info,
           debug, use_chat_history, num_chat_messages, model_name,
           num_retrieved_chunks, sample_question, download, pc, question,
           chat_history, question_summary, query, prompt_context, results, prompt,
           generated_response, pet_context, rewrite_prompt, calls, shown,
           outcome >>

\* ------------------------------------------------------- service metadata
FALLBACK_METADATA == << [name |-> PETAPP_SERVICE, search_column |-> "chunk"] >>

\* What SHOW CORTEX SEARCH SERVICES does: it raises, lists nothing, or lists
\* a service under its bare name.
ShowOutcomes == { "raise", "none", "bare" }

\* init_service_metadata, for an outcome of SHOW CORTEX SEARCH SERVICES and
\* of DESC CORTEX SEARCH SERVICE PETAPP.DATA.CC_SEARCH_SERVICE_CS.
init_service_metadata(show, desc_ok) ==
    IF show = "raise" THEN FALLBACK_METADATA
    ELSE LET listed == IF show = "bare"
                       THEN << [name |-> BARE_SERVICE, search_column |-> "CHUNK"] >>
                       ELSE << >>
             known == IF desc_ok /\ ~\E i \in 1..Len(listed) : listed[i].name = PETAPP_SERVICE
                      THEN Append(listed, [name |-> PETAPP_SERVICE, search_column |-> "CHUNK"])
                      ELSE listed
         IN IF known = << >> THEN FALLBACK_METADATA ELSE known

\* selected_cortex_search_service when the session state has no such key.
NoService == << >>

\* A selectbox without a key: the choice is not stored in the session state.
default_service_without_key(metadata) == NoService

\* init_config_options: the selectbox is drawn when there is metadata, and
\* its key stores the option at the default index.
default_service(metadata) ==
    IF metadata = << >> THEN NoService
    ELSE IF \E i \in 1..Len(metadata) : metadata[i].name = PETAPP_SERVICE
         THEN PETAPP_SERVICE
         ELSE metadata[1].name

\* main: disable_chat.
disable_chat ==
    \/ Len(service_metadata) = 0
    \/ selected_cortex_search_service = NoService

\* ------------------------------------------------------------ pet profile
\* The values of the pet widgets: text inputs, number inputs, selectboxes.
PetWidgets ==
    [name : { "", "Buddy" }, type : { "", "Dog" }, breed : { "", "Beagle" },
     age : { 0, 3 }, weight : { 0, 20 },
     spayed_neutered : { "Unknown", "Yes", "No" },
     medical_conditions : { "", "Diabetes" }]

EmptyWidgets ==
    [name |-> "", type |-> "", breed |-> "", age |-> 0, weight |-> 0,
     spayed_neutered |-> "Unknown", medical_conditions |-> ""]

\* init_pet_info: the empty mapping.
init_pet_info == [k \in {} |-> None]

\* display_pet_info_sidebar: the profile stored from the widget values.
display_pet_info_sidebar(w) ==
    [k \in PetKeys |->
        CASE k = "name" -> IF w.name # "" THEN Str(w.name) ELSE None
          [] k = "type" -> IF w.type # "" THEN Str(w.type) ELSE None
          [] k = "breed" -> IF w.breed # "" THEN Str(w.breed) ELSE None
          [] k = "age" -> IF w.age > 0 THEN Num(w.age) ELSE None
          [] k = "weight" -> IF w.weight > 0 THEN Num(w.weight) ELSE None
          [] k = "spayed_neutered" ->
                IF w.spayed_neutered # "Unknown" THEN Str(w.spayed_neutered) ELSE None
          [] k = "medical_conditions" ->
                IF w.medical_conditions # "" THEN Str(w.medical_conditions) ELSE None]

\* dict.get(key): None when the key is absent.
Get(d, k) == IF k \in DOMAIN d THEN d[k] ELSE None

\* One entry of pet_details, when the field is truthy.
Detail(label, k, suffix) ==
    IF Truthy(Get(pet_info, k))
    THEN << label,
            IF Get(pet_info, k).k = "num" THEN ToString(Get(pet_info, k).n)
            ELSE Get(pet_info, k).v,
            suffix >>
    ELSE << >>

\* any(pet_info.values())
AnyPetValue == \E k \in DOMAIN pet_info : Truthy(pet_info[k])

\* A get_pet_context that looks at the name alone before it builds the text.
get_pet_context_requires_name ==
    IF ~Truthy(Get(pet_info, "name")) THEN << >>
    ELSE << PET_MARKER >> \o Detail("Pet name: ", "name", "")

get_pet_context ==
    IF DOMAIN pet_info = {} \/ ~AnyPetValue THEN << >>
    ELSE << PET_MARKER >>
         \o Detail("Pet name: ", "name", "")
         \o Detail("Type: ", "type", "")
         \o Detail("Breed: ", "breed", "")
         \o Detail("Age: ", "age", " years")
         \o Detail("Weight: ", "weight", " lbs")
         \o Detail("Spayed/Neutered: ", "spayed_neutered", "")
         \o Detail("Medical conditions: ", "medical_conditions", "")

\* ------------------------------------------------------------ chat history
\* A get_chat_history that hands over every earlier message of the log.
get_chat_history_whole_log ==
    IF Len(messages) < 2 THEN << >> ELSE SubSeq(messages, 1, Len(messages) - 1)

\* A window that is the last n messages, the latest one among them.
get_chat_history_keeps_latest ==
    IF Len(messages) < 2 THEN << >>
    ELSE SubSeq(messages, Max(0, Len(messages) - num_chat_messages) + 1, Len(messages))

\* get_chat_history: msgs[max(0, len(msgs)-n-1) : len(msgs)-1]
get_chat_history ==
    LET n == num_chat_messages
        msgs == messages
    IN IF Len(msgs) < 2 THEN << >>
       ELSE SubSeq(msgs, Max(0, Len(msgs) - n - 1) + 1, Len(msgs) - 1)

\* ------------------------------------------------------------- completion
\* complete: what it returns when the remote Complete call returns text.
complete(text) == EscapeDollar(text)

\* make_chat_history_summary: the prompt of the rewrite call.
summary_prompt(history, user_question) ==
    [kind |-> "rewrite", chat_history |-> history, question |-> user_question]

\* ----------------------------------------------------------------- search
\* query_cortex_search_service: whether the service lookup asks the session
\* for the current database and schema.
lookup_uses_session ==
    /\ selected_cortex_search_service # PETAPP_SERVICE
    /\ Len(selected_cortex_search_service) # 3

\* query_cortex_search_service: search_col.
search_col ==
    LET hits == { i \in 1..Len(service_metadata) :
                    service_metadata[i].name = selected_cortex_search_service }
    IN IF hits = {} THEN "chunk"
       ELSE Lower(service_metadata[CHOOSE i \in hits : \A j \in hits : i <= j].search_column)

\* query_cortex_search_service: context_str.
RECURSIVE context_from(_, _)
context_from(res, i) ==
    IF i > Len(res) THEN << >>
    ELSE (IF search_col \in DOMAIN res[i]
          THEN << "Context document ", ToString(i), ": ", res[i][search_col], " \n\n" >>
          ELSE << >>) \o context_from(res, i + 1)

context_str(res) == context_from(res, 1)

\* create_prompt: the prompt of the final completion call.
answer_prompt(history, context, pet, user_question) ==
    [kind |-> "answer", chat_history |-> history, veterinary_knowledge |-> context,
     pet_information |-> pet, question |-> user_question]

\* ----------------------------------------------------------------- export
\* json.dumps of a str: the backslash is escaped.
json_string(t) == Replace(t, "\\", << "\\", "\\" >>)

\* The reader of the export, json.loads. Of a string: an escaped backslash
\* is one backslash.
RECURSIVE json_unstring(_)
json_unstring(t) ==
    IF t = << >> THEN << >>
    ELSE IF Head(t) = "\\" /\ Len(t) >= 2 /\ t[2] = "\\"
         THEN << "\\" >> \o json_unstring(Tail(Tail(t)))
         ELSE << Head(t) >> \o json_unstring(Tail(t))

\* json.dumps of a profile value: None is null.
json_value(v) ==
    CASE v.k = "none" -> [j |-> "null"]
      [] v.k = "str" -> [j |-> "string", v |-> v.v]
      [] v.k = "num" -> [j |-> "number", n |-> v.n]

json_unvalue(x) ==
    CASE x.j = "null" -> None
      [] x.j = "string" -> Str(x.v)
      [] x.j = "number" -> Num(x.n)

json_message(m) == [role |-> m.role, content |-> json_string(m.content)]
json_unmessage(m) == [role |-> m.role, content |-> json_unstring(m.content)]

\* export_chat: the document behind the download button (the timestamp,
\* which no later step reads, is left out).
export_chat ==
    [kind |-> "json",
     pet_info |-> [k \in DOMAIN pet_info |-> json_value(pet_info[k])],
     search_service |-> selected_cortex_search_service,
     model |-> model_name,
     messages |-> [i \in 1..Len(messages) |-> json_message(messages[i])]]

\* json.loads of the exported document.
loads_messages(doc) == [i \in 1..Len(doc.messages) |-> json_unmessage(doc.messages[i])]
loads_pet_info(doc) == [k \in DOMAIN doc.pet_info |-> json_unvalue(doc.pet_info[k])]

\* --------------------------------------------------------------- messages
UserMessage(q) == [role |-> "user", content |-> q]
AssistantMessage(r) == [role |-> "assistant", content |-> r]

\* An init_messages that resets the log on every run.
init_messages_always_clears(clear_conversation) == << >>

\* init_messages.
init_messages(clear_conversation) ==
    IF clear_conversation THEN << >> ELSE messages

Shown(what, text) == [what |-> what, text |-> text]

\* ---------------------------------------------------------------- Init
\* A session between two script runs: nothing is running, nothing is shown,
\* every widget that the specification does not set is at its default.
Session(metadata, pet, msgs) ==
    /\ service_metadata = metadata
    /\ selected_cortex_search_service = default_service(metadata)
    /\ messages = msgs
    /\ pet_info = pet
    /\ debug = FALSE
    /\ use_chat_history = TRUE
    /\ num_chat_messages = DefaultChatMessages
    /\ model_name = MODELS[1]
    /\ num_retrieved_chunks = DefaultRetrievedChunks
    /\ sample_question = NoQuestion
    /\ pc = "idle"
    /\ question = NoQuestion
    /\ chat_history = EmptyStr
    /\ question_summary = << >>
    /\ query = << >>
    /\ prompt_context = << >>
    /\ results = << >>
    /\ prompt = NoPrompt
    /\ generated_response = << >>
    /\ pet_context = << >>
    /\ rewrite_prompt = NoPrompt
    /\ calls = << >>
    /\ shown = {}
    /\ outcome = "ok"

\* The session after its first script run: the metadata as
\* init_service_metadata left it, the profile as display_pet_info_sidebar
\* stored it from the untouched widgets, an empty log and no download button.
Init ==
    /\ \E show \in ShowOutcomes, desc_ok \in BOOLEAN :
          Session(init_service_metadata(show, desc_ok),
                  display_pet_info_sidebar(EmptyWidgets), << >>)
    /\ download = NoDownload

\* ------------------------------------------------------- a script run
\* init_config_options: the download button is drawn, from the log as the
\* run found it, when that log is not empty.
offer_export == IF Len(messages) > 0 THEN export_chat ELSE NoDownload

\* A run that carries no question: main falls through to the footer.
NoLocals ==
    /\ question' = NoQuestion
    /\ chat_history' = EmptyStr
    /\ question_summary' = << >>
    /\ query' = << >>
    /\ prompt_context' = << >>
    /\ results' = << >>
    /\ prompt' = NoPrompt
    /\ generated_response' = << >>
    /\ pet_context' = << >>
    /\ rewrite_prompt' = NoPrompt

NoTurn ==
    /\ NoLocals
    /\ calls' = << >>
    /\ shown' = {}
    /\ outcome' = "ok"

\* A create_prompt that does not look at the Use Chat History toggle.
history_aware_ignores_toggle == get_chat_history # << >>

\* create_prompt: whether the question is rewritten before the search.
history_aware == use_chat_history /\ get_chat_history # << >>

\* main, from its first line to the first remote call of the turn: the
\* user message is appended and create_prompt reads the history window.
BeginTurn(q) ==
    /\ download' = offer_export
    /\ messages' = Append(init_messages(FALSE), UserMessage(q))
    /\ question' = q
    /\ shown' = { Shown("user", EscapeDollar(q)) }
    /\ calls' = << >>
    /\ prompt_context' = << >>
    /\ results' = << >>
    /\ prompt' = NoPrompt
    /\ generated_response' = << >>
    /\ pet_context' = << >>
    /\ rewrite_prompt' = NoPrompt
    /\ outcome' = "running"
    /\ UNCHANGED << sessionVars, configVars, pet_info >>
    /\ question_summary' = << >>
    /\ query' = << >>
    /\ chat_history' = IF use_chat_history THEN List(get_chat_history') ELSE EmptyStr
    /\ pc' = IF history_aware' THEN "rewrite" ELSE "search"

\* The user submits a question in st.chat_input.
TypeQuestion(q) ==
    /\ pc = "idle"
    /\ ~disable_chat
    /\ BeginTurn(q)
    /\ UNCHANGED sample_question

\* The user clicks a sample question: it is stored and the script reruns.
ClickSample(i) ==
    /\ pc = "idle"
    /\ Len(service_metadata) > 0
    /\ download' = offer_export
    /\ sample_question' = sample_questions[i]
    /\ NoTurn
    /\ pc' = "rerun"
    /\ UNCHANGED << messages, sessionVars, configVars, pet_info >>

\* The rerun finds sample_question in the session state and takes it as
\* the question.
RerunSample ==
    /\ pc = "rerun"
    /\ sample_question' = NoQuestion
    /\ BeginTurn(sample_question)

\* The user clicks Clear Chat: init_messages empties the log.
ClearChat ==
    /\ pc = "idle"
    /\ download' = offer_export
    /\ messages' = init_messages(TRUE)
    /\ NoTurn
    /\ pc' = "idle"
    /\ UNCHANGED << sessionVars, configVars, pet_info, sample_question >>

\* The user clicks Download Chat History: the script reruns.
ClickDownload ==
    /\ pc = "idle"
    /\ download # NoDownload
    /\ download' = offer_export
    /\ NoTurn
    /\ pc' = "idle"
    /\ UNCHANGED << messages, sessionVars, configVars, pet_info, sample_question >>

ToggleDebug ==
    /\ pc = "idle"
    /\ debug' = ~debug
    /\ download' = offer_export
    /\ NoTurn
    /\ pc' = "idle"
    /\ UNCHANGED << messages, sessionVars, use_chat_history, num_chat_messages,
                    pet_info, sample_question >>

ToggleUseChatHistory ==
    /\ pc = "idle"
    /\ use_chat_history' = ~use_chat_history
    /\ download' = offer_export
    /\ NoTurn
    /\ pc' = "idle"
    /\ UNCHANGED << messages, sessionVars, debug, num_chat_messages, pet_info,
                    sample_question >>

SetChatHistoryLength(n) ==
    /\ pc = "idle"
    /\ n \in MinChatMessages..MaxChatMessages
    /\ n # num_chat_messages
    /\ num_chat_messages' = n
    /\ download' = offer_export
    /\ NoTurn
    /\ pc' = "idle"
    /\ UNCHANGED << messages, sessionVars, debug, use_chat_history, pet_info,
                    sample_question >>

\* The user picks another service in the selectbox, whose options are the
\* names of service_metadata.
SelectService(name) ==
    /\ pc = "idle"
    /\ \E i \in 1..Len(service_metadata) : name = service_metadata[i].name
    /\ name # selected_cortex_search_service
    /\ selected_cortex_search_service' = name
    /\ NoTurn
    /\ pc' = "idle"
    /\ UNCHANGED << messages, service_metadata, model_name, num_retrieved_chunks,
                    configVars, pet_info, sample_question >>
    /\ download' = offer_export'

\* The user picks another model in the selectbox, whose options are MODELS.
\* The widget's key stores the choice before the script runs, so the export
\* of this run already names it.
SetModel(m) ==
    /\ pc = "idle"
    /\ \E i \in 1..Len(MODELS) : m = MODELS[i]
    /\ m # model_name
    /\ model_name' = m
    /\ NoTurn
    /\ pc' = "idle"
    /\ UNCHANGED << messages, service_metadata, selected_cortex_search_service,
                    num_retrieved_chunks, configVars, pet_info, sample_question >>
    /\ download' = offer_export'

\* The user changes the number input "Select number of context chunks".
SetRetrievedChunks(k) ==
    /\ pc = "idle"
    /\ k \in MinRetrievedChunks..MaxRetrievedChunks
    /\ k # num_retrieved_chunks
    /\ num_retrieved_chunks' = k
    /\ download' = offer_export
    /\ NoTurn
    /\ pc' = "idle"
    /\ UNCHANGED << messages, service_metadata, selected_cortex_search_service,
                    model_name, configVars, pet_info, sample_question >>

\* The user edits the pet widgets: the download button is drawn before
\* display_pet_info_sidebar stores the new profile.
EditPet(w) ==
    /\ pc = "idle"
    /\ display_pet_info_sidebar(w) # pet_info
    /\ download' = offer_export
    /\ pet_info' = display_pet_info_sidebar(w)
    /\ NoTurn
    /\ pc' = "idle"
    /\ UNCHANGED << messages, sessionVars, configVars, sample_question >>

\* ------------------------------------------------------- the turn's steps
\* A remote call as the run's record keeps it: a completion call with its
\* model, a search call with its limit.
Call(kind, ok) ==
    [kind |-> kind, ok |-> ok,
     model |-> IF kind = "search" THEN "" ELSE model_name,
     limit |-> IF kind = "search" THEN num_retrieved_chunks ELSE 0]

\* An exception that nothing catches ends the script run, and the run's
\* locals with it.
Propagate(from) ==
    /\ pc' = "idle"
    /\ outcome' = from
    /\ NoLocals

\* A make_chat_history_summary that shows the enhanced query whether or not
\* debug mode is on.
RewriteReturns_always_shows(text) ==
    /\ pc = "rewrite"
    /\ rewrite_prompt' = summary_prompt(chat_history, clean_question(question))
    /\ calls' = Append(calls, Call("rewrite", TRUE))
    /\ question_summary' = complete(text)
    /\ shown' = shown \cup { Shown("enhanced_query", EscapeDollar(complete(text))) }
    /\ pc' = "search"
    /\ UNCHANGED << messages, sessionVars, configVars, pet_info, sample_question,
                    download, question, chat_history, query, prompt_context,
                    results, prompt, generated_response, pet_context, outcome >>

\* make_chat_history_summary: the rewrite call returns.
RewriteReturns(text) ==
    /\ pc = "rewrite"
    /\ rewrite_prompt' = summary_prompt(chat_history, clean_question(question))
    /\ calls' = Append(calls, Call("rewrite", TRUE))
    /\ question_summary' = complete(text)
    /\ shown' = IF debug
                THEN shown \cup { Shown("enhanced_query", EscapeDollar(complete(text))) }
                ELSE shown
    /\ pc' = "search"
    /\ UNCHANGED << messages, sessionVars, configVars, pet_info, sample_question,
                    download, question, chat_history, query, prompt_context,
                    results, prompt, generated_response, pet_context, outcome >>

\* make_chat_history_summary: the rewrite call raises.
RewriteRaises ==
    /\ pc = "rewrite"
    /\ calls' = Append(calls, Call("rewrite", FALSE))
    /\ Propagate("make_chat_history_summary raised")
    /\ UNCHANGED << messages, sessionVars, configVars, pet_info, sample_question,
                    download, shown >>

\* create_prompt: the query it gives to query_cortex_search_service.
search_query ==
    IF chat_history.items # << >>
    THEN question_summary
    ELSE clean_question(question)

\* An except branch that returns an empty context.
search_failure_empty_context == [context |-> << >>, results |-> << >>]

\* query_cortex_search_service: what the except branch returns.
search_failure == [context |-> SEARCH_ERROR_CONTEXT, results |-> << >>]

\* A create_prompt that searches again once the search has returned.
FinishPrompt_back_to_search(context, res) ==
    /\ prompt_context' = context
    /\ results' = res
    /\ pet_context' = get_pet_context
    /\ prompt' = answer_prompt(chat_history, context, get_pet_context,
                               clean_question(question))
    /\ pc' = "search"

\* create_prompt after query_cortex_search_service has returned.
FinishPrompt(context, res) ==
    /\ prompt_context' = context
    /\ results' = res
    /\ pet_context' = get_pet_context
    /\ prompt' = answer_prompt(chat_history, context, get_pet_context,
                               clean_question(question))
    /\ pc' = "generate"

\* query_cortex_search_service: the search returns.
SearchReturns(res) ==
    /\ pc = "search"
    /\ query' = search_query
    /\ calls' = Append(calls, Call("search", TRUE))
    /\ shown' = IF debug
                THEN shown \cup { Shown("retrieved_context", context_str(res)) }
                ELSE shown
    /\ FinishPrompt(context_str(res), res)
    /\ UNCHANGED << messages, sessionVars, configVars, pet_info, sample_question,
                    download, question, chat_history, question_summary,
                    generated_response, rewrite_prompt, outcome >>

\* query_cortex_search_service: the except branch up to the debug block.
SearchExcept ==
    /\ IF debug
       THEN /\ shown' = shown \cup { Shown("search_error", << >>),
                                      Shown("search_error_details", << >>) }
            /\ pc' = "search_except"
            /\ UNCHANGED << prompt_context, results, pet_context, prompt >>
       ELSE /\ shown' = shown \cup { Shown("search_error", << >>) }
            /\ FinishPrompt(search_failure.context, search_failure.results)
    /\ query' = search_query
    /\ UNCHANGED << messages, sessionVars, configVars, pet_info, sample_question,
                    download, question, chat_history, question_summary,
                    generated_response, rewrite_prompt, outcome >>

\* query_cortex_search_service: the remote search raises.
SearchRaises ==
    /\ pc = "search"
    /\ calls' = Append(calls, Call("search", FALSE))
    /\ SearchExcept

\* query_cortex_search_service: the service lookup raises
\* (session.get_current_database() for a name that is not three-part).
LookupRaises ==
    /\ pc = "search"
    /\ lookup_uses_session
    /\ calls' = calls
    /\ SearchExcept

\* The except branch's debug block: session.get_current_database() and
\* session.get_current_schema() return.
HandlerReturns ==
    /\ pc = "search_except"
    /\ shown' = shown \cup { Shown("debug_info", << >>) }
    /\ FinishPrompt(search_failure.context, search_failure.results)
    /\ UNCHANGED << messages, sessionVars, configVars, pet_info, sample_question,
                    download, question, chat_history, question_summary, query,
                    generated_response, rewrite_prompt, calls, outcome >>

\* The except branch's debug block: the session call raises, inside the
\* handler, where nothing catches it.
HandlerRaises ==
    /\ pc = "search_except"
    /\ Propagate("query_cortex_search_service raised")
    /\ UNCHANGED << messages, sessionVars, configVars, pet_info, sample_question,
                    download, calls, shown >>

\* main: the references table, one row per result.
references(res) == [i \in 1..Len(res) |-> res[i].title]

\* main: the final completion call returns and the assistant message is saved.
CompleteReturns(text) ==
    /\ pc = "generate"
    /\ calls' = Append(calls, Call("complete", TRUE))
    /\ shown' = shown \cup { Shown("assistant", complete(text)),
                              Shown("references", references(results)) }
    /\ messages' = Append(messages, AssistantMessage(complete(text)))
    /\ pc' = "idle"
    /\ outcome' = "ok"
    /\ NoLocals
    /\ UNCHANGED << sessionVars, configVars, pet_info, sample_question, download >>

\* main: the final completion call raises.
CompleteRaises ==
    /\ pc = "generate"
    /\ calls' = Append(calls, Call("complete", FALSE))
    /\ Propagate("complete raised")
    /\ UNCHANGED << messages, sessionVars, configVars, pet_info, sample_question,
                    download, shown >>

\* ------------------------------------------------- the turn pipeline
\* A turn is started while the log has room for its two messages.
Room == Len(messages) + 2 <= MaxLog

Next ==
    \/ \E q \in TypedQuestions : Room /\ TypeQuestion(q)
    \/ \E i \in SampleClicks : Room /\ ClickSample(i)
    \/ RerunSample
    \/ ClearChat
    \/ ClickDownload
    \/ \E name \in { PETAPP_SERVICE, BARE_SERVICE } : SelectService(name)
    \/ ToggleDebug
    \/ ToggleUseChatHistory
    \/ \E text \in CompletionTexts : RewriteReturns(text)
    \/ RewriteRaises
    \/ \E res \in SearchResults : SearchReturns(res)
    \/ SearchRaises
    \/ LookupRaises
    \/ HandlerReturns
    \/ HandlerRaises
    \/ \E text \in CompletionTexts : CompleteReturns(text)
    \/ CompleteRaises

Spec == Init /\ [][Next]_vars

\* ------------------------------------------------- the history window
\* The logs a session can hold between two runs: the first message is a
\* user message and no assistant message follows another. Every message has
\* a content of its own, so that a window is told from every other.
HistRoles(k) ==
    { r \in [1..k -> { "user", "assistant" }] :
        /\ k > 0 => r[1] = "user"
        /\ \A i \in 1..(k - 1) : ~(r[i] = "assistant" /\ r[i + 1] = "assistant") }

HistLog(k, r) ==
    [i \in 1..k |-> [role |-> r[i], content |-> << "message ", ToString(i) >>]]

\* A session whose log already holds up to MaxHistLen - 1 messages, as a
\* rerun leaves it.
InitHist ==
    /\ \E k \in 0..(MaxHistLen - 1) : \E r \in HistRoles(k) :
          Session(FALLBACK_METADATA, display_pet_info_sidebar(EmptyWidgets),
                  HistLog(k, r))
    /\ download = offer_export

HistQuestion == << "Is this normal?" >>

NextHist ==
    \/ \E n \in MinChatMessages..MaxChatMessages : SetChatHistoryLength(n)
    \/ TypeQuestion(HistQuestion)

SpecHist == InitHist /\ [][NextHist]_vars

\* ---------------------------------------------------- the pet profile
\* A session before its first question. The profile is what
\* display_pet_info_sidebar stores from untouched widgets or, as an input of
\* get_pet_context, the empty mapping that init_pet_info leaves.
InitPet ==
    /\ \E pet \in { init_pet_info, display_pet_info_sidebar(EmptyWidgets) } :
          Session(FALLBACK_METADATA, pet, << >>)
    /\ download = NoDownload

PetQuestion == << "What are the signs of dehydration in dogs?" >>

\* The profile is edited, through every combination of the widget values,
\* before the question is asked.

NextPet ==
    \/ \E w \in PetWidgets : Len(messages) = 0 /\ EditPet(w)
    \/ Room /\ TypeQuestion(PetQuestion)
    \/ \E text \in CompletionTexts : RewriteReturns(text)
    \/ \E res \in SearchResults : SearchReturns(res)
    \/ SearchRaises
    \/ \E text \in CompletionTexts : CompleteReturns(text)

SpecPet == InitPet /\ [][NextPet]_vars

\* ------------------------------------------------ the session options
\* What the rewrite call answers: texts that are neither a question, nor an
\* answer, nor a message of the log, so that the enhanced query is told
\* from every other text of the turn.
RewriteTexts ==
    { << "Is vomiting normal for a beagle?" >>,
      << "Does a ", "$", "5 vaccine work for a beagle?" >> }

\* A log of k messages in which user and assistant take turns.
TurnsLog(k) ==
    HistLog(k, [i \in 1..k |-> IF i % 2 = 1 THEN "user" ELSE "assistant"])

\* A session with an empty log, or with a log longer than the largest
\* history window.
InitCfg ==
    /\ \E k \in { 0, MaxHistLen - 1 } :
          Session(FALLBACK_METADATA, display_pet_info_sidebar(EmptyWidgets),
                  TurnsLog(k))
    /\ download = offer_export

CfgQuestion == << "How much is a ", "$", "5 vaccine?" >>

\* The options are set, to every value their widgets offer, and then one
\* turn is asked of each of these logs.
CfgRoom == Len(messages) \in { 0, MaxHistLen - 1 }

NextCfg ==
    \/ \E i \in 1..Len(MODELS) : CfgRoom /\ SetModel(MODELS[i])
    \/ \E k \in MinRetrievedChunks..MaxRetrievedChunks :
          CfgRoom /\ SetRetrievedChunks(k)
    \/ \E n \in MinChatMessages..MaxChatMessages :
          CfgRoom /\ SetChatHistoryLength(n)
    \/ CfgRoom /\ ToggleDebug
    \/ CfgRoom /\ TypeQuestion(CfgQuestion)
    \/ \E text \in RewriteTexts : RewriteReturns(text)
    \/ \E res \in SearchResults : SearchReturns(res)
    \/ SearchRaises
    \/ HandlerReturns
    \/ \E text \in CompletionTexts : CompleteReturns(text)

SpecCfg == InitCfg /\ [][NextCfg]_vars

\* ================================================================ claims
\* The placeholder answer the specification document names for a failed
\* completion; the source holds no such text.
PLACEHOLDER_RESPONSE == << "I", "'", "m sorry, I couldn", "'", "t generate a response" >>

Last(seq) == seq[Len(seq)]
SearchFailed == Shown("search_error", << >>) \in shown
FailedCompletion ==
    \E i \in 1..Len(calls) : calls[i].kind \in { "rewrite", "complete" } /\ ~calls[i].ok
Alternates(log) ==
    /\ Len(log) % 2 = 0
    /\ \A i \in 1..Len(log) :
          log[i].role = IF i % 2 = 1 THEN "user" ELSE "assistant"

\* C1: between turns the Conversation Log strictly alternates user,
\* assistant, user, assistant, ..., starting with a user message and ending
\* with the assistant message the last user message triggered.
C1_LogAlternates == pc = "idle" => Alternates(messages)

\* C2: a turn in which a completion call raised still ends with an assistant
\* message whose content is the placeholder "I'm sorry, I couldn't generate a
\* response", and the run ends normally.
C2_CompletionFailureYieldsPlaceholder ==
    (pc = "idle" /\ FailedCompletion) =>
        /\ outcome = "ok"
        /\ Len(messages) > 0
        /\ Last(messages) = AssistantMessage(PLACEHOLDER_RESPONSE)

\* C3: whenever the service lookup or the search call has failed, debug mode
\* on or off, query_cortex_search_service hands an empty result sequence to
\* create_prompt and no exception leaves it.
C3_SearchFailureContained ==
    SearchFailed =>
        /\ outcome # "query_cortex_search_service raised"
        /\ pc = "generate" => results = << >>

C5_HistoryWindow ==
    pc \in { "rewrite", "search" } =>
        LET len == Len(messages)
            window == chat_history.items
            k == IF len < 2 THEN 0 ELSE Min(num_chat_messages, len - 1)
        IN /\ chat_history.kind = "list"
           /\ Len(window) = k
           /\ \A i \in 1..k : window[i] = messages[len - 1 - k + i]
           /\ \A i \in 1..Len(window) : window[i] # messages[len]

\* The cap at n = 10 is at work: the log holds more than 10 messages before
\* the question.
C5_Witness ==
    /\ pc = "rewrite"
    /\ num_chat_messages = MaxChatMessages
    /\ Len(messages) - 1 > num_chat_messages
    /\ Len(chat_history.items) = MaxChatMessages
    /\ chat_history.items[1] = messages[Len(messages) - MaxChatMessages]

C7_ExportIsTheLog ==
    (pc = "idle" /\ download # NoDownload) =>
        /\ loads_messages(download) = messages
        /\ loads_pet_info(download) = pet_info

\* C8 as stated: every step leaves the Conversation Log unchanged or extends
\* it at the end by one message.
C8_AppendOnly ==
    [][ \/ messages' = messages
        \/ /\ Len(messages') = Len(messages) + 1
           /\ SubSeq(messages', 1, Len(messages)) = messages ]_vars

\* C8 as amended: every step leaves the Conversation Log unchanged, extends
\* it at the end by one message or, in the run of a Clear Chat click, empties
\* it; no message in the log is modified or reordered.
C8_AppendOrClear ==
    [][ \/ messages' = messages
        \/ /\ Len(messages') = Len(messages) + 1
           /\ SubSeq(messages', 1, Len(messages)) = messages
        \/ /\ messages' = << >>
           /\ pc = "idle"
           /\ pc' = "idle"
           /\ question' = NoQuestion ]_vars

\* A Clear Chat run has emptied a log that held messages: the download
\* button drawn in that run still holds them.
C8_Witness ==
    /\ messages = << >>
    /\ download # NoDownload
    /\ Len(download.messages) > 0

\* A field of the stored profile is populated: a text that is neither empty
\* nor the selectbox's "Unknown", or a number above zero.
PopulatedField(k) ==
    \/ pet_info[k].k = "str" /\ pet_info[k].v \notin { "", "Unknown" }
    \/ pet_info[k].k = "num" /\ pet_info[k].n > 0
Populated == \E k \in DOMAIN pet_info : PopulatedField(k)

\* C9: the text get_pet_context returns, which is the pet_information part
\* of the prompt, holds the "Pet Information" marker exactly when at least
\* one field of the profile is populated; for the empty mapping and for a
\* profile with nothing populated it is the empty text.
C9_MarkerIffPopulated ==
    pc = "generate" =>
        /\ Contains(pet_context, PET_MARKER) <=> Populated
        /\ ~Populated => pet_context = << >>
        /\ prompt.pet_information = pet_context

\* The marker is there for a profile with no name: the weight alone
\* populates it.
C9_Witness ==
    /\ pc = "generate"
    /\ DOMAIN pet_info = PetKeys
    /\ \A k \in PetKeys : PopulatedField(k) <=> k = "weight"
    /\ Contains(prompt.pet_information, PET_MARKER)

\* C10 as stated: the question in the prompt of the final completion call is
\* the submitted text unchanged, the text stored as the user message.
C10_QuestionUnchanged ==
    pc = "generate" =>
        /\ prompt.question = question
        /\ Last(messages) = UserMessage(prompt.question)

\* C10 as amended: the question in the prompt of the final completion call
\* is the submitted text with every apostrophe removed and nothing else
\* changed (dollar signs stay); the user message in the log holds the
\* submitted text as typed; the two are the same text exactly when the
\* question has no apostrophe.
C10_QuestionWithoutApostrophes ==
    pc = "generate" =>
        /\ prompt.question = SelectSeq(question, LAMBDA tok : tok # "'")
        /\ Last(messages) = UserMessage(question)
        /\ (prompt.question = question) <=> ~Contains(question, "'")

C10_Witness ==
    /\ pc = "generate"
    /\ Contains(question, "'")
    /\ Contains(question, "$")
    /\ Contains(prompt.question, "$")

\* ---------------------------------------------------------------- C11
\* The texts an enhanced query can be, as make_chat_history_summary returns
\* it and as the debug text area shows it.
Summaries == { complete(t) : t \in RewriteTexts }
EnhancedQueryTexts == Summaries \cup { EscapeDollar(s) : s \in Summaries }

\* C11: the enhanced query is the search query and nothing else. Whenever
\* the rewrite call has returned, the search is made with its answer; no
\* message of the Conversation Log and no part of the final answer prompt
\* (history, retrieved context, pet information, question) is the enhanced
\* query; and anything displayed that is the enhanced query is the debug
\* text area "Enhanced Query", drawn with debug mode on, so that with debug
\* mode off it is never displayed.
C11_EnhancedQueryOnlySearched ==
    /\ question_summary # << >> =>
          /\ question_summary \in Summaries
          /\ query \in { << >>, question_summary }
          /\ pc = "generate" => query = question_summary
          /\ debug => Shown("enhanced_query", EscapeDollar(question_summary)) \in shown
    /\ \A s \in shown :
          (s.what = "enhanced_query" \/ s.text \in EnhancedQueryTexts) =>
              debug /\ s.what = "enhanced_query"
    /\ \A i \in 1..Len(messages) : messages[i].content \notin EnhancedQueryTexts
    /\ prompt # NoPrompt =>
          /\ prompt.question \notin EnhancedQueryTexts
          /\ prompt.veterinary_knowledge \notin EnhancedQueryTexts
          /\ prompt.pet_information \notin EnhancedQueryTexts
          /\ \A i \in 1..Len(prompt.chat_history.items) :
                prompt.chat_history.items[i].content \notin EnhancedQueryTexts

\* A turn with debug mode off whose question was rewritten into a query
\* with a dollar sign: the search was made with it and the final answer
\* prompt is composed.
C11_Witness ==
    /\ ~debug
    /\ pc = "generate"
    /\ Contains(question_summary, "$")
    /\ query = question_summary
    /\ prompt.question = clean_question(question)
    /\ \A s \in shown : s.what # "enhanced_query"

\* ---------------------------------------------------------------- C12
ModelNames == { MODELS[i] : i \in 1..Len(MODELS) }

\* C12: the session configuration stays inside its declared domain and so
\* does every remote call. The model of every completion call of the run,
\* rewrite or final answer, is one of MODELS; the limit of every search call
\* is between 1 and 10; the history window size is between 1 and 10, and
\* the history read for the turn, given to the rewrite prompt and given to
\* the final answer prompt has at most 10 messages.
C12_ConfigInDomain ==
    /\ model_name \in ModelNames
    /\ num_retrieved_chunks \in MinRetrievedChunks..MaxRetrievedChunks
    /\ num_chat_messages \in MinChatMessages..MaxChatMessages
    /\ \A i \in 1..Len(calls) :
          /\ calls[i].kind \in { "rewrite", "complete" } =>
                calls[i].model \in ModelNames
          /\ calls[i].kind = "search" =>
                calls[i].limit \in MinRetrievedChunks..MaxRetrievedChunks
    /\ Len(chat_history.items) <= MaxChatMessages
    /\ rewrite_prompt # NoPrompt =>
          Len(rewrite_prompt.chat_history.items) <= MaxChatMessages
    /\ prompt # NoPrompt =>
          Len(prompt.chat_history.items) <= MaxChatMessages

\* A turn on a log longer than the largest window, with the last model of
\* the list, the largest limit and the largest window: the rewrite call and
\* the search call are made and the prompt holds exactly 10 messages.
C12_Witness ==
    /\ pc = "generate"
    /\ Len(messages) > MaxChatMessages + 1
    /\ num_chat_messages = MaxChatMessages
    /\ Len(calls) = 2
    /\ calls[1].kind = "rewrite" /\ calls[1].model = MODELS[Len(MODELS)]
    /\ calls[2].kind = "search" /\ calls[2].limit = MaxRetrievedChunks
    /\ Len(prompt.chat_history.items) = MaxChatMessages

\* ---------------------------------------------------------------- C13
CallKinds == [i \in 1..Len(calls) |-> calls[i].kind]

\* C13 as stated: the search call (Retrieving) comes before the
\* history-summarization completion call (Composing), so that every rewrite
\* call of a turn has a search call of the turn before it.
C13_SearchBeforeSummarization ==
    \A i \in 1..Len(calls) :
        calls[i].kind = "rewrite" =>
            \E j \in 1..(i - 1) : calls[j].kind = "search"

\* The steps a turn can take from each of its phases.
PhaseOrder ==
    { << "idle", "idle" >>, << "idle", "rerun" >>,
      << "idle", "rewrite" >>, << "idle", "search" >>,
      << "rerun", "rewrite" >>, << "rerun", "search" >>,
      << "rewrite", "search" >>, << "rewrite", "idle" >>,
      << "search", "generate" >>, << "search", "search_except" >>,
      << "search_except", "generate" >>, << "search_except", "idle" >>,
      << "generate", "idle" >> }

\* The remote call a phase issues.
PhaseCall(phase) ==
    CASE phase = "rewrite" -> "rewrite"
      [] phase = "search" -> "search"
      [] phase = "generate" -> "complete"
      [] OTHER -> "none"

\* C13, amended: every step of a turn follows the order user message,
\* history-summarization call (if any), search call, composed prompt, final
\* completion call, assistant message. A turn starts from Idle only, by
\* appending the user message before any call; a phase issues its own call
\* and no other; no phase is entered twice; the prompt is composed after the
\* search; the assistant message is appended by the step that ends
\* Generating with a returned completion and by no other; a turn that ends
\* from another phase, or with a raised completion, leaves the log as it is.
C13_PhaseOrder ==
    [][ /\ << pc, pc' >> \in PhaseOrder
        /\ pc' \in { "rewrite", "search" } /\ pc \in { "idle", "rerun" } =>
              /\ messages' = Append(messages, UserMessage(question'))
              /\ calls' = << >>
        /\ question' # question /\ question' # NoQuestion => pc \in { "idle", "rerun" }
        /\ calls' # calls /\ calls' # << >> =>
              /\ calls' = Append(calls, Last(calls'))
              /\ Last(calls').kind = PhaseCall(pc)
              /\ \A i \in 1..Len(calls) : calls[i].kind # PhaseCall(pc)
        /\ pc' = "generate" => prompt' # NoPrompt /\ prompt = NoPrompt
        /\ pc' \notin { "idle", "generate" } => prompt' = NoPrompt
        /\ pc \notin { "idle", "rerun" } =>
              IF pc = "generate" /\ Last(calls').ok
              THEN /\ messages' = Append(messages, Last(messages'))
                   /\ Last(messages').role = "assistant"
                   /\ outcome' = "ok"
              ELSE /\ messages' = messages
                   /\ pc' = "idle" => outcome' \notin { "ok", "running" }
      ]_vars

\* A second turn that went through every phase: the rewrite call, the
\* search call and the final completion call were issued in this order and
\* the assistant message is the last of the log.
C13_Witness ==
    /\ pc = "idle"
    /\ outcome = "ok"
    /\ CallKinds = << "rewrite", "search", "complete" >>
    /\ Len(messages) = 4
    /\ Last(messages).role = "assistant"

\* ---------------------------------------------------------------- C14
CallCount(kind) == Cardinality({ i \in 1..Len(calls) : calls[i].kind = kind })

\* The counting part of C14: a run issues at most one search call, at most
\* one rewrite call and at most one final completion call, whether the
\* calls return or raise.
NoRetry ==
    /\ CallCount("search") <= 1
    /\ CallCount("rewrite") <= 1
    /\ CallCount("complete") <= 1

\* C14: no remote call is retried, and a failed search is treated as no
\* results: the prompt composed after it has the empty result sequence, and
\* a turn whose search failed does not end before its single final
\* completion call is issued.
C14_NoRetryAndFailedSearchGoesOn ==
    /\ NoRetry
    /\ SearchFailed /\ pc = "generate" => results = << >>
    /\ SearchFailed /\ pc = "idle" => CallCount("complete") = 1

\* ---------------------------------------------------------------- C15
ServiceSelected ==
    /\ Len(service_metadata) > 0
    /\ selected_cortex_search_service # NoService
    /\ \E i \in 1..Len(service_metadata) :
          service_metadata[i].name = selected_cortex_search_service

\* C15: a question reaches the pipeline only with a search service
\* configured and selected. In every state of a turn, and in the rerun that
\* carries a clicked sample question, service_metadata is not empty and
\* selected_cortex_search_service is set to one of its names, so that the
\* chat input is not disabled where the sample question is taken; and no
\* run both clears the log and handles a question: the step that starts a
\* turn appends to the log as it was, and the step that empties the log
\* starts no turn.
C15_TurnNeedsService ==
    /\ [](pc # "idle" => ServiceSelected /\ ~disable_chat)
    /\ [](sample_question # NoQuestion => pc = "rerun")
    /\ [][ /\ question' # NoQuestion /\ question = NoQuestion =>
                /\ ServiceSelected
                /\ messages' = Append(messages, UserMessage(question'))
           /\ messages' = << >> /\ messages # << >> =>
                /\ question' = NoQuestion
                /\ pc' = "idle"
                /\ calls' = << >>
       ]_vars

\* A clicked sample question that reached the pipeline, with a service the
\* user picked in the selectbox.
C15_Witness ==
    /\ pc = "search"
    /\ question = sample_questions[7]
    /\ sample_question = NoQuestion
    /\ Len(service_metadata) = 2
    /\ selected_cortex_search_service = BARE_SERVICE
    /\ Last(messages) = UserMessage(question)
====
